---- MODULE Spec2Model ----
(***************************************************************************)
(* Model of explore_epub.py: explore_epub(epub_filepath) and the           *)
(* __main__ block.                                                         *)
(*                                                                         *)
(* Text is a sequence of code points, a payload a sequence of bytes.  A    *)
(* printed line is the record [fmt, args]: the f-string of the print call  *)
(* with {} for each substitution, and the substituted texts in order.      *)
(* The file system, the archive and the encoding of standard output are    *)
(* the environment: chosen in Init and never changed by the program.       *)
(***************************************************************************)
EXTENDS Integers, Sequences, FiniteSets, TLC

VARIABLES
    caller,     \* "main": run as a program; "direct": explore_epub called with a path
    path,       \* the path handed to os.path.exists and zipfile.ZipFile
    pathKind,   \* what the path resolves to: "missing", "notzip", "unreadable", "zip"
    archive,    \* the archive's entries in central-directory order
    stdoutEnc,  \* the encoding of sys.stdout: "utf-8" or "ascii"
    pc,         \* position in the program
    handle,     \* epub_file: "none", "open", "closed"
    names,      \* epub_file.namelist()
    idx,        \* position of the for loop in names
    filename,   \* loop variable
    content,    \* decoded text of the current entry
    exc,        \* the exception being raised or handled
    out,        \* the lines written to standard output by this run
    reads,      \* the names handed to epub_file.open, in order
    calls,      \* invocations of explore_epub in this run
    opens,      \* archive handles acquired in this run
    releases,   \* archive handles released in this run
    prev        \* <<>> or <<[out, pc]>>: how the previous run on this input ended

vars == <<caller, path, pathKind, archive, stdoutEnc, pc, handle, names, idx,
          filename, content, exc, out, reads, calls, opens, releases, prev>>

env == <<caller, path, pathKind, archive, stdoutEnc>>

(************************** bounds and constants ***************************)

\* Largest number of entries of an archive.
MaxEntries == 2

\* len(content) > 100 and content[:100]
PreviewLen == 100

\* "-" * 20
SepLen == 20

Rep(c, n) == [i \in 1..n |-> c]

(****************************** environment ********************************)

\* 'file.epub'
FixedPath == <<102, 105, 108, 101, 46, 101, 112, 117, 98>>

\* Paths a direct caller passes: 'file.epub' and a one-letter non-ASCII path.
Paths == {FixedPath, <<233>>}

\* Entry names: "a" and a non-ASCII name.
Names == {<<97>>, <<233>>}

\* Payloads: exactly 100 ASCII bytes; 101 ASCII bytes; 100 ASCII bytes and an
\* invalid byte; an ASCII byte, an invalid byte, an ASCII byte; the two-byte
\* encoding of U+00E9.
Payloads ==
    { Rep(97, PreviewLen),
      Rep(97, PreviewLen) \o <<98>>,
      Rep(97, PreviewLen) \o <<255>>,
      <<97, 255, 98>>,
      <<195, 169>> }

\* An entry either has a payload or is corrupted (its read raises).
Entries ==
    [name : Names, data : Payloads, bad : {FALSE}]
        \cup [name : Names, data : {<<>>}, bad : {TRUE}]

Archives == UNION { [1..n -> Entries] : n \in 0..MaxEntries }

PathKinds == {"missing", "notzip", "unreadable", "zip"}

(******************************* exceptions ********************************)

Exc(t, m) == [type |-> t, msg |-> m]

NoExc == Exc("none", <<>>)

\* Subclasses of Exception that the modelled calls raise.
ExceptionTypes ==
    {"FileNotFoundError", "BadZipFile", "PermissionError", "UnicodeEncodeError"}

\* str(e) of a UnicodeEncodeError names the character by its escape: ASCII.
EncodeError == Exc("UnicodeEncodeError", <<117>>)

\* zipfile.ZipFile(epub_filepath, 'r'): the exception it raises, or NoExc.
\* The messages of the OSErrors quote the path.
OpenError(kind, p) ==
    CASE kind = "missing"    -> Exc("FileNotFoundError", <<50>> \o p)
      [] kind = "notzip"     -> Exc("BadZipFile", <<122>>)
      [] kind = "unreadable" -> Exc("PermissionError", <<49, 51>> \o p)
      [] OTHER               -> NoExc

\* A check that always answers yes.
ExistsAlways(kind) == TRUE

\* os.path.exists(epub_file)
Exists(kind) == kind # "missing"

(***************************** pure functions ******************************)

\* bytes.decode('utf-8', errors=...) over the bytes of Payloads, which hold
\* one-byte and two-byte forms only.  A byte below 128 is a character; a lead
\* byte C2..DF followed by a continuation byte 80..BF is a two-byte
\* character; any other byte is an error of length one, for which the error
\* handler supplies `repl`.  A lead byte is never a continuation byte, so
\* whether a continuation byte is consumed depends on its predecessor alone.
IsLead(x) == x \in 194..223

IsCont(x) == x \in 128..191

\* What the decoder emits for the byte at position i.
DecodeAt(b, i, repl) ==
    IF b[i] < 128 THEN <<b[i]>>
    ELSE IF IsLead(b[i]) /\ i + 1 <= Len(b) /\ IsCont(b[i + 1])
         THEN <<(b[i] - 192) * 64 + (b[i + 1] - 128)>>
    ELSE IF IsCont(b[i]) /\ i > 1 /\ IsLead(b[i - 1]) THEN <<>>
    ELSE repl

\* The decoded text of bytes lo..hi, left to right.
RECURSIVE DecodeWith(_, _, _, _)
DecodeWith(b, lo, hi, repl) ==
    IF lo > hi THEN <<>>
    ELSE IF lo = hi THEN DecodeAt(b, lo, repl)
    ELSE LET mid == (lo + hi) \div 2
         IN  DecodeWith(b, lo, mid, repl) \o DecodeWith(b, mid + 1, hi, repl)

\* errors='replace': U+FFFD for each undecodable byte.
DecodeReplace(b) == DecodeWith(b, 1, Len(b), <<65533>>)

\* file.read().decode('utf-8', errors='ignore')
Decode(b) == DecodeWith(b, 1, Len(b), <<>>)

Line(f, a) == [fmt |-> f, args |-> a]

\* The content line with >= for >.
ContentLineGe(c) ==
    IF Len(c) >= PreviewLen
    THEN Line("Content (first 100 chars): {}", <<SubSeq(c, 1, PreviewLen)>>)
    ELSE Line("Content: {}", <<c>>)

\* if len(content) > 100: ... content[:100] ... else: ... content
ContentLine(c) ==
    IF Len(c) > PreviewLen
    THEN Line("Content (first 100 chars): {}", <<SubSeq(c, 1, PreviewLen)>>)
    ELSE Line("Content: {}", <<c>>)

FilenameLine(n) == Line("Filename: {}", <<n>>)

\* "-" * 20
SeparatorLine == Line("{}", <<Rep(45, SepLen)>>)

EntryErrorLine(n, e) == Line("Error reading '{}': {}", <<n, e.msg>>)

\* The except clauses of the outer try with the first two swapped.
ArchiveErrorLineSwapped(e, p) ==
    IF e.type = "BadZipFile"
    THEN Line("Error: File '{}' not found.", <<p>>)
    ELSE IF e.type = "FileNotFoundError"
    THEN Line("Error: '{}' is not a valid ZIP or EPUB file.", <<p>>)
    ELSE Line("An unexpected error occurred: {}", <<e.msg>>)

\* The except clauses of the outer try, in order.
ArchiveErrorLine(e, p) ==
    IF e.type = "FileNotFoundError"
    THEN Line("Error: File '{}' not found.", <<p>>)
    ELSE IF e.type = "BadZipFile"
    THEN Line("Error: '{}' is not a valid ZIP or EPUB file.", <<p>>)
    ELSE Line("An unexpected error occurred: {}", <<e.msg>>)

AbsentLine(p) ==
    Line("Error: '{}' does not exist. Please ensure this file is in the same directory or replace with the correct filepath.", <<p>>)

\* sys.stdout encodes the whole line before writing any of it.
Encodable(line, enc) ==
    enc = "utf-8" \/ \A k \in 1..Len(line.args) :
                        \A j \in 1..Len(line.args[k]) : line.args[k][j] < 128

\* The names in reverse order.
NameListReversed(a) == [i \in 1..Len(a) |-> a[Len(a) + 1 - i].name]

\* epub_file.namelist(): the names in archive order, duplicates included.
NameList(a) == [i \in 1..Len(a) |-> a[i].name]

\* epub_file.open(filename) looks the name up: of entries that share a name
\* the last one is read.
GetInfo(a, n) == a[CHOOSE i \in 1..Len(a) :
                     a[i].name = n /\ \A j \in (i + 1)..Len(a) : a[j].name # n]

\* except OSError in place of except Exception.
CatchesOSError(t) == t \in {"FileNotFoundError", "PermissionError"}

\* except Exception (inner try)
EntryCatches(t) == t \in ExceptionTypes

\* except Exception (outer try, last clause)
ArchiveCatches(t) == t \in ExceptionTypes

\* Some clause of the outer try takes the exception.
ArchiveHandles(e) ==
    e.type = "FileNotFoundError" \/ e.type = "BadZipFile" \/ ArchiveCatches(e.type)

\* A loop that resumes where the previous invocation stopped.
FirstIndexStale == IF idx = 0 THEN 1 ELSE idx

\* for filename in epub_file.namelist(): starts at the first name.
FirstIndex == 1

\* A scope exit that does not count as a release.
WithExitLeak(r) == r

\* Leaving `with zipfile.ZipFile(...)`: __exit__ closes the archive once.
WithExit(r) == r + 1

(******************************** actions **********************************)

Terminal == {"returned", "raised", "exit"}

StartPc(c) == IF c = "main" THEN "main" ELSE "call"

TypeOK ==
    /\ caller \in {"main", "direct"}
    /\ pathKind \in PathKinds
    /\ stdoutEnc \in {"utf-8", "ascii"}
    /\ handle \in {"none", "open", "closed"}
    /\ idx \in 0..(MaxEntries + 1)
    /\ Len(prev) <= 1

InitProgram ==
    /\ pc = StartPc(caller)
    /\ handle = "none"
    /\ names = <<>>
    /\ idx = 0
    /\ filename = <<>>
    /\ content = <<>>
    /\ exc = NoExc
    /\ out = <<>>
    /\ reads = <<>>
    /\ calls = 0
    /\ opens = 0
    /\ releases = 0
    /\ prev = <<>>

InitEnv ==
    /\ caller \in {"main", "direct"}
    /\ path \in (IF caller = "main" THEN {FixedPath} ELSE Paths)
    /\ pathKind \in PathKinds
    /\ archive \in (IF pathKind = "zip" THEN Archives ELSE {<<>>})

\* Standard output encodes every character.
Init == InitEnv /\ stdoutEnc = "utf-8" /\ InitProgram

\* Standard output may be unable to encode non-ASCII characters.
InitIO == InitEnv /\ stdoutEnc \in {"utf-8", "ascii"} /\ InitProgram

\* if os.path.exists(epub_file): explore_epub(epub_file) else: print(...)
MainCheck ==
    /\ pc = "main"
    /\ IF Exists(pathKind)
       THEN pc' = "call" /\ out' = out
       ELSE IF Encodable(AbsentLine(path), stdoutEnc)
       THEN pc' = "exit" /\ out' = Append(out, AbsentLine(path))
       ELSE pc' = "raised" /\ out' = out
    /\ UNCHANGED <<env, handle, names, idx, filename, content, exc, reads,
                   calls, opens, releases, prev>>

\* explore_epub(epub_filepath) is entered.
Call ==
    /\ pc = "call"
    /\ pc' = "open"
    /\ calls' = calls + 1
    /\ UNCHANGED <<env, handle, names, idx, filename, content, exc, out, reads,
                   opens, releases, prev>>

\* with zipfile.ZipFile(epub_filepath, 'r') as epub_file: ... namelist()
OpenArchive ==
    /\ pc = "open"
    /\ LET e == OpenError(pathKind, path) IN
       IF e.type # "none"
       THEN /\ exc' = e
            /\ pc' = "archive_except"
            /\ UNCHANGED <<handle, opens, names, idx>>
       ELSE /\ handle' = "open"
            /\ opens' = opens + 1
            /\ names' = NameList(archive)
            /\ idx' = FirstIndex
            /\ pc' = "for"
            /\ exc' = exc
    /\ UNCHANGED <<env, filename, content, out, reads, calls, releases, prev>>

\* for filename in ...: the next name, or the end of the with block.
ForNext ==
    /\ pc = "for"
    /\ IF idx > Len(names)
       THEN /\ handle' = "closed"
            /\ releases' = WithExit(releases)
            /\ pc' = "returned"
            /\ filename' = filename
       ELSE /\ filename' = names[idx]
            /\ pc' = "read"
            /\ UNCHANGED <<handle, releases>>
    /\ UNCHANGED <<env, names, idx, content, exc, out, reads, calls, opens, prev>>

\* An exception raised in the body of the inner try: the inner except clause
\* takes it, or it leaves the with block (closing the archive) for the outer
\* except clauses.
RaiseInEntry(e) ==
    /\ exc' = e
    /\ IF EntryCatches(e.type)
       THEN pc' = "entry_except" /\ UNCHANGED <<handle, releases>>
       ELSE /\ pc' = "archive_except"
            /\ handle' = "closed"
            /\ releases' = WithExit(releases)

\* print(line) in the body of the inner try, then continue at `next`.
PrintInEntry(line, next) ==
    IF Encodable(line, stdoutEnc)
    THEN out' = Append(out, line) /\ pc' = next /\ UNCHANGED <<exc, handle, releases>>
    ELSE out' = out /\ RaiseInEntry(EncodeError)

\* with epub_file.open(filename) as file: content = file.read().decode(...)
ReadEntry ==
    /\ pc = "read"
    /\ reads' = Append(reads, filename)
    /\ LET info == GetInfo(archive, filename) IN
       IF info.bad
       THEN RaiseInEntry(Exc("BadZipFile", <<66>> \o filename)) /\ content' = content
       ELSE /\ content' = Decode(info.data)
            /\ pc' = "print_filename"
            /\ UNCHANGED <<exc, handle, releases>>
    /\ UNCHANGED <<env, names, idx, filename, out, calls, opens, prev>>

\* print(f"Filename: {filename}")
PrintFilename ==
    /\ pc = "print_filename"
    /\ PrintInEntry(FilenameLine(filename), "print_content")
    /\ UNCHANGED <<env, names, idx, filename, content, reads, calls, opens, prev>>

\* the if/else around the two content prints
PrintContent ==
    /\ pc = "print_content"
    /\ PrintInEntry(ContentLine(content), "print_separator")
    /\ UNCHANGED <<env, names, idx, filename, content, reads, calls, opens, prev>>

\* print("-" * 20), then the next iteration
PrintSeparator ==
    /\ pc = "print_separator"
    /\ PrintInEntry(SeparatorLine, "for")
    /\ idx' = IF pc' = "for" THEN idx + 1 ELSE idx
    /\ UNCHANGED <<env, names, filename, content, reads, calls, opens, prev>>

\* except Exception as e: print(f"Error reading '{filename}': {e}")
\* An exception raised by this print is raised inside the handler: it leaves
\* the with block for the outer except clauses.
EntryExcept ==
    /\ pc = "entry_except"
    /\ IF Encodable(EntryErrorLine(filename, exc), stdoutEnc)
       THEN /\ out' = Append(out, EntryErrorLine(filename, exc))
            /\ exc' = NoExc
            /\ idx' = idx + 1
            /\ pc' = "for"
            /\ UNCHANGED <<handle, releases>>
       ELSE /\ out' = out
            /\ exc' = EncodeError
            /\ idx' = idx
            /\ handle' = "closed"
            /\ releases' = WithExit(releases)
            /\ pc' = "archive_except"
    /\ UNCHANGED <<env, names, filename, content, reads, calls, opens, prev>>

\* except FileNotFoundError / except zipfile.BadZipFile / except Exception:
\* print the message and return.  An exception raised by the print of a
\* handler is caught by no clause and leaves the function.
ArchiveExcept ==
    /\ pc = "archive_except"
    /\ IF ArchiveHandles(exc) /\ Encodable(ArchiveErrorLine(exc, path), stdoutEnc)
       THEN /\ out' = Append(out, ArchiveErrorLine(exc, path))
            /\ exc' = NoExc
            /\ pc' = "returned"
       ELSE /\ out' = out
            /\ exc' = IF ArchiveHandles(exc) THEN EncodeError ELSE exc
            /\ pc' = "raised"
    /\ UNCHANGED <<env, handle, names, idx, filename, content, reads, calls,
                   opens, releases, prev>>

\* The program is run, or the function called, again on the same input.  The
\* locals of the previous invocation are dead; they keep their last values
\* until the new invocation assigns them.
Rerun ==
    /\ pc \in Terminal
    /\ prev' = <<[out |-> out, pc |-> pc]>>
    /\ pc' = StartPc(caller)
    /\ handle' = "none"
    /\ exc' = NoExc
    /\ out' = <<>>
    /\ reads' = <<>>
    /\ calls' = 0
    /\ opens' = 0
    /\ releases' = 0
    /\ UNCHANGED <<env, names, idx, filename, content>>

Next ==
    \/ MainCheck
    \/ Call
    \/ OpenArchive
    \/ ForNext
    \/ ReadEntry
    \/ PrintFilename
    \/ PrintContent
    \/ PrintSeparator
    \/ EntryExcept
    \/ ArchiveExcept
    \/ Rerun

Spec == Init /\ [][Next]_vars

SpecIO == InitIO /\ [][Next]_vars

(************************ reading the output back **************************)

ErrFmt == "Error reading '{}': {}"

\* Twenty dashes, written out.
Dashes20 == <<45, 45, 45, 45, 45, 45, 45, 45, 45, 45,
              45, 45, 45, 45, 45, 45, 45, 45, 45, 45>>

IsContentLine(l) ==
    l.fmt \in {"Content: {}", "Content (first 100 chars): {}"}

IsSeparator(l) == l = [fmt |-> "{}", args |-> <<Dashes20>>]

\* The output read as per-entry records: a Filename/Content/separator block,
\* an "Error reading" line, or a line that belongs to neither (stray).
RECURSIVE RecordsFrom(_, _)
RecordsFrom(o, i) ==
    IF i > Len(o) THEN <<>>
    ELSE IF o[i].fmt = ErrFmt
         THEN <<[name |-> o[i].args[1], kind |-> "error"]>> \o RecordsFrom(o, i + 1)
    ELSE IF /\ o[i].fmt = "Filename: {}"
            /\ i + 2 <= Len(o)
            /\ IsContentLine(o[i + 1])
            /\ IsSeparator(o[i + 2])
         THEN <<[name |-> o[i].args[1], kind |-> "block"]>> \o RecordsFrom(o, i + 3)
    ELSE <<[name |-> <<>>, kind |-> "stray"]>> \o RecordsFrom(o, i + 1)

Records(o) == RecordsFrom(o, 1)

\* Positions of the program inside the with block.
InLoop == {"for", "read", "print_filename", "print_content", "print_separator",
           "entry_except"}

\* Positions between the read of an entry and the end of its record.
InEntry == InLoop \ {"for"}

\* Whether reading the entry of that name fails.
ReadFails(n) == GetInfo(archive, n).bad

\* The record the i-th enumerated name is due.
DueRecord(i) ==
    [name |-> archive[i].name,
     kind |-> IF ReadFails(archive[i].name) THEN "error" ELSE "block"]

\* Bytes of b that belong to no valid character.
Undecodable(b) ==
    {i \in 1..Len(b) :
        /\ b[i] >= 128
        /\ ~(IsLead(b[i]) /\ i + 1 <= Len(b) /\ IsCont(b[i + 1]))
        /\ ~(IsCont(b[i]) /\ i > 1 /\ IsLead(b[i - 1]))}

\* Continuation bytes of b that end a two-byte character.
Continuations(b) ==
    {i \in 2..Len(b) : IsCont(b[i]) /\ IsLead(b[i - 1])}

Placeholders(t) == {i \in 1..Len(t) : t[i] = 65533}

(********************************* claims **********************************)

C6_Original ==
    pc = "print_filename" =>
        Cardinality(Placeholders(content))
            = Cardinality(Undecodable(GetInfo(archive, filename).data))

\* C6 as amended: decoding never fails (an entry whose read succeeds reaches
\* the inner handler only through a print); every undecodable byte is
\* removed from the decoded text, which holds no replacement character, and
\* the 100-character threshold is applied to the text that is left.
C6_UndecodableRemoved ==
    /\ (pc = "entry_except" /\ ~ReadFails(filename)) => exc.type = "UnicodeEncodeError"
    /\ pc \in {"print_filename", "print_content", "print_separator"} =>
          LET data == GetInfo(archive, filename).data
          IN  /\ Placeholders(content) = {}
              /\ Len(content) = Len(data) - Cardinality(Undecodable(data))
                                          - Cardinality(Continuations(data))
    /\ pc = "print_separator" =>
          LET data == GetInfo(archive, filename).data
              kept == Len(data) - Cardinality(Undecodable(data))
                                - Cardinality(Continuations(data))
          IN  (out[Len(out)].fmt = "Content (first 100 chars): {}") <=> (kept > 100)

\* C6 witness: a payload of 100 ASCII bytes and one invalid byte was printed
\* in full, as a text of 100 characters.
C6_Witness ==
    /\ pc = "print_separator"
    /\ Len(GetInfo(archive, filename).data) = 101
    /\ Undecodable(GetInfo(archive, filename).data) = {101}
    /\ out[Len(out)].fmt = "Content: {}"
    /\ Len(out[Len(out)].args[1]) = 100

\* C8: a second run on the same input ends as the first did, with the same
\* output.
C8_SameOutputTwice ==
    (pc \in Terminal /\ prev # <<>>) => prev[1] = [out |-> out, pc |-> pc]

\* C8 witness: a second scan of an archive of two entries has ended.
C8_Witness ==
    /\ pc \in Terminal
    /\ prev # <<>>
    /\ Len(archive) = 2
    /\ Len(out) >= 2

\* C9: the program checks 'file.epub': absent, it prints the does-not-exist
\* message alone and never calls explore_epub; present, it calls
\* explore_epub on that path exactly once and prints no such message.
C9_MainChecksExistence ==
    caller = "main" =>
        /\ path = <<102, 105, 108, 101, 46, 101, 112, 117, 98>>
        /\ pathKind = "missing" =>
              /\ calls = 0 /\ opens = 0 /\ reads = <<>>
              /\ pc \in Terminal => (pc = "exit" /\ out = <<AbsentLine(path)>>)
              /\ pc \notin Terminal => out = <<>>
        /\ pathKind # "missing" =>
              /\ calls <= 1
              /\ pc \in Terminal => calls = 1
              /\ pc \notin {"main", "call"} => calls = 1
              /\ \A i \in 1..Len(out) : out[i].fmt # AbsentLine(path).fmt

\* C9 witness: the program found the file and its one scan has returned.
C9_Witness ==
    /\ caller = "main"
    /\ pathKind = "zip"
    /\ pc = "returned"
    /\ calls = 1
    /\ Len(out) > 0

\* C10: an archive that was opened is released exactly once on every way
\* out, is open while entries are read, and is released before the function
\* ends or an archive-level handler runs; when the open fails nothing is
\* held and nothing released.
C10_HandleReleasedOnce ==
    /\ opens <= 1
    /\ releases <= opens
    /\ pc \in InLoop => (handle = "open" /\ opens = 1 /\ releases = 0)
    /\ pc \in {"archive_except", "returned", "raised"} =>
          /\ releases = opens
          /\ handle = IF opens = 1 THEN "closed" ELSE "none"
    /\ pathKind # "zip" => (opens = 0 /\ handle = "none")
    /\ (pathKind = "zip" /\ pc \in {"archive_except", "returned", "raised"}) => opens = 1

\* C10 witness: an error left the entry loop for an archive-level handler
\* and the archive was released on the way.
C10_Witness ==
    /\ pc = "archive_except"
    /\ opens = 1
    /\ releases = 1
    /\ handle = "closed"

\* C2 as stated: the function never raises past its own boundary.
C2_Original == pc # "raised"

\* C2 as amended: every failure raised while opening the archive or while
\* reading or printing an entry is caught and the function returns; only a
\* failure of the print call inside an archive-level handler leaves the
\* function, and that handler has then printed nothing.
C2_RaisesOnlyFromHandlerPrint ==
    [][/\ pc' = "raised" =>
            /\ pc = "archive_except"
            /\ ~Encodable(ArchiveErrorLine(exc, path), stdoutEnc)
            /\ out' = out
       /\ (pc = "archive_except" /\ pc' = "returned") =>
            out' = Append(out, ArchiveErrorLine(exc, path))
       /\ (pc \in InLoop \cup {"open"} /\ exc' # NoExc) =>
            pc' \in {"entry_except", "archive_except"}]_vars

\* C2 witness: a call has ended by raising.
C2_Witness ==
    /\ pc = "raised"
    /\ calls = 1
    /\ exc.type = "UnicodeEncodeError"

====
